---- MODULE Spec2Model ----
(***************************************************************************)
(* Model of the LinearAlgebraEditor core: the tokenizer (lex), the         *)
(* error-recovering recursive-descent parser (parse) and the structural    *)
(* simplifier (simplify).                                                  *)
(*                                                                         *)
(* Conventions.  A string of the program is a sequence of one-character    *)
(* strings, so input[k] of the code is input[k+1] here.  Offsets (token    *)
(* start/end, spans, the parser's index st.i) are 0-based as in the code.  *)
(* A diagnostic string is the sequence of the parts it is concatenated     *)
(* from.                                                                   *)
(***************************************************************************)
EXTENDS Integers, Sequences, FiniteSets, TLC

VARIABLES
  phase,    \* "text" while the text is being supplied, "parsed" once the pipeline ran
  text,     \* the source text handed to lex
  tokens,   \* the token sequence handed to parse
  result,   \* what parse returned: [expr, errors, outcome, i]
  simplified, \* what simplify returned for the parsed expression
  cursor    \* the caret offset of the editor, 0..Len(text)

vars == <<phase, text, tokens, result, simplified, cursor>>

(***************************************************************************)
(* Bounds of the model.                                                    *)
(***************************************************************************)
MaxLen == 4        \* longest source text of Spec
MaxLexLen == 5     \* longest source text of SpecLex
MaxTokens == 3     \* longest raw token sequence of SpecTokens
MaxVec == 3        \* longest vector of SpecSimplify
MaxRows == 2       \* most rows of a matrix of SpecSimplify
MaxCols == 2       \* longest matrix row of SpecSimplify
MaxOpsLen == 5     \* longest source text of SpecOps
MaxNum == 2        \* largest number literal of SpecArith

(***************************************************************************)
(* Characters.                                                             *)
(***************************************************************************)
Digits == {"0", "1", "2", "3", "4", "5", "6", "7", "8", "9"}
Letters ==
  {"a", "b", "c", "d", "e", "f", "g", "h", "i", "j", "k", "l", "m",
   "n", "o", "p", "q", "r", "s", "t", "u", "v", "w", "x", "y", "z",
   "A", "B", "C", "D", "E", "F", "G", "H", "I", "J", "K", "L", "M",
   "N", "O", "P", "Q", "R", "S", "T", "U", "V", "W", "X", "Y", "Z"}
Whitespace == {" ", "\t", "\n", "\r"}

isDigit(ch) == ch \in Digits
isAlpha(ch) == ch \in Letters \cup {"_"}
isAlNum(ch) == ch \in Letters \cup Digits \cup {"_"}
isSpace(ch) == ch \in Whitespace

\* input[k] || ''  : the character at 0-based offset k, '' past the end
charAt(input, k) == IF k >= 0 /\ k < Len(input) THEN input[k + 1] ELSE ""

\* input.slice(a, b)
slice(input, a, b) == SubSeq(input, a + 1, b)

(***************************************************************************)
(* Tokenizer.                                                              *)
(***************************************************************************)
Token(type, value, start, end) ==
  [type |-> type, value |-> value, start |-> start, end |-> end]

\* while (isDigit(input[j] || '')) j++
RECURSIVE skipDigits(_, _)
skipDigits(input, j) ==
  IF isDigit(charAt(input, j)) THEN skipDigits(input, j + 1) ELSE j

\* while (isAlNum(input[j] || '')) j++
RECURSIVE skipAlNum(_, _)
skipAlNum(input, j) ==
  IF isAlNum(charAt(input, j)) THEN skipAlNum(input, j + 1) ELSE j

\* the end offset of the number that starts at offset i
numberEnd(input, i) ==
  LET j0 == i
      sawDot0 == input[j0 + 1] = "."
      j1 == IF sawDot0 THEN j0 + 1 ELSE j0
      j2 == skipDigits(input, j1)
      dot2 == ~sawDot0 /\ charAt(input, j2) = "."
      j3 == IF dot2 THEN j2 + 1 ELSE j2
  IN  skipDigits(input, j3)

\* the single-character switch: the token type of ch, "" when no case matches
singleCharType(ch) ==
  CASE ch = "+" -> "Plus"
    [] ch = "-" -> "Minus"
    [] ch = "*" -> "Star"
    [] ch = "," -> "Comma"
    [] ch = ";" -> "Semicolon"
    [] ch = "<" -> "LAngle"
    [] ch = ">" -> "RAngle"
    [] ch = "[" -> "LBracket"
    [] ch = "]" -> "RBracket"
    [] ch = "(" -> "LParen"
    [] ch = ")" -> "RParen"
    [] ch = "·" -> "Dot"
    [] ch = "." -> "Dot"
    [] ch = "×" -> "Cross"
    [] OTHER -> ""

\* the while loop of lex, from offset i with the tokens pushed so far
RECURSIVE lexLoop(_, _, _)
lexLoop(input, i, toks) ==
  IF ~(i < Len(input)) THEN toks
  ELSE
    LET ch == input[i + 1]
        start == i
    IN
    IF isSpace(ch) THEN lexLoop(input, i + 1, toks)
    ELSE IF isDigit(ch) \/ (ch = "." /\ isDigit(charAt(input, i + 1))) THEN
      LET j == numberEnd(input, i)
      IN  lexLoop(input, j, Append(toks, Token("Number", slice(input, i, j), start, j)))
    ELSE IF isAlpha(ch) THEN
      LET j == skipAlNum(input, i)
      IN  lexLoop(input, j, Append(toks, Token("Identifier", slice(input, i, j), start, j)))
    ELSE IF singleCharType(ch) # "" THEN
      lexLoop(input, i + 1, Append(toks, Token(singleCharType(ch), <<ch>>, start, start + 1)))
    ELSE lexLoop(input, i + 1, toks)

\* a plausible slip: the final EOF token is not pushed
lexWithoutEOF(input) == lexLoop(input, 0, <<>>)

lex(input) ==
  Append(lexLoop(input, 0, <<>>), Token("EOF", <<>>, Len(input), Len(input)))

(***************************************************************************)
(* Number(t.value): the value of a numeric literal.  A literal without a   *)
(* non-zero fractional digit is the integer it denotes; any other literal  *)
(* is kept exactly, as its integer part with its fractional digits         *)
(* (trailing zeros dropped).                                               *)
(***************************************************************************)
digitValue(ch) ==
  CASE ch = "0" -> 0 [] ch = "1" -> 1 [] ch = "2" -> 2 [] ch = "3" -> 3
    [] ch = "4" -> 4 [] ch = "5" -> 5 [] ch = "6" -> 6 [] ch = "7" -> 7
    [] ch = "8" -> 8 [] ch = "9" -> 9

RECURSIVE digitsValue(_)
digitsValue(ds) ==
  IF ds = <<>> THEN 0
  ELSE 10 * digitsValue(SubSeq(ds, 1, Len(ds) - 1)) + digitValue(ds[Len(ds)])

RECURSIVE dropTrailingZeros(_)
dropTrailingZeros(ds) ==
  IF ds # <<>> /\ ds[Len(ds)] = "0" THEN dropTrailingZeros(SubSeq(ds, 1, Len(ds) - 1))
  ELSE ds

Number(value) ==
  LET dots == {k \in 1..Len(value) : value[k] = "."}
      dot == IF dots = {} THEN Len(value) + 1 ELSE CHOOSE k \in dots : TRUE
      int == digitsValue(SubSeq(value, 1, dot - 1))
      frac == dropTrailingZeros(SubSeq(value, dot + 1, Len(value)))
  IN  IF frac = <<>> THEN int ELSE [int |-> int, frac |-> frac]

(***************************************************************************)
(* Parser.  The mutable State {tokens, i, errors} is threaded through the  *)
(* parse functions; each returns [expr, st].  The field outcome records    *)
(* how the call ended: "ok" (it returned), "TypeError" (a property of the  *)
(* undefined value tokens[i], i past the last token, was read) or          *)
(* "diverged" (a loop iteration left st.i where it was: the loop condition *)
(* reads nothing but tokens[st.i], so the loop never ends).                *)
(***************************************************************************)
Span(start, end) == [start |-> start, end |-> end]

State(toks) == [tokens |-> toks, i |-> 0, errors |-> <<>>, outcome |-> "ok"]

\* st.tokens[st.i]; undefined past the last token
undefinedAt(st) == st.i >= Len(st.tokens)
at(st) == st.tokens[st.i + 1]

Undefined == [kind |-> "undefined"]
throw(st) == [expr |-> Undefined, st |-> [st EXCEPT !.outcome = "TypeError"]]
diverge(st) == [expr |-> Undefined, st |-> [st EXCEPT !.outcome = "diverged"]]

\* eat(st): no type given, the current token is consumed
eat(st) == [tok |-> at(st), st |-> [st EXCEPT !.i = st.i + 1]]

\* eat(st, type): the current token is consumed when it has that type
eatType(st, type) ==
  IF at(st).type = type THEN eat(st) ELSE [tok |-> Undefined, st |-> st]

\* expect(st, type, msg)
expect(st, type, msg) ==
  IF at(st).type = type THEN eat(st)
  ELSE [tok |-> Undefined,
        st |-> [st EXCEPT !.errors = Append(st.errors, <<msg, " at ", at(st).start>>)]]

\* pendingIndex = null
null == -1

placeholder(expected, start, end) ==
  [kind |-> "Placeholder", expected |-> expected, span |-> Span(start, end)]

Closers == {"EOF", "RAngle", "RBracket", "RParen"}

\* a plausible slip: a zero-width placeholder at the current position
missingOperandZeroWidth(nextTok) == placeholder("expression", nextTok.start, nextTok.start)

\* right = placeholder('expression', nextTok.start, nextTok.end)
missingOperand(nextTok) == placeholder("expression", nextTok.start, nextTok.end)

\* a plausible slip: the diagnostic is dropped
reportUnclosedSilent(st, r, msg) == st

\* if (!r) st.errors.push(msg)
reportUnclosed(st, r, msg) ==
  IF r.tok = Undefined THEN [st EXCEPT !.errors = Append(st.errors, <<msg>>)] ELSE st

\* a plausible slip: the row is pushed as it is, even when it is empty
completedRowAsIs(currentRow, semi) == currentRow

\* the row pushed on a semicolon: an empty row first gets a placeholder
completedRow(currentRow, semi) ==
  IF Len(currentRow) = 0
  THEN Append(currentRow, placeholder("element", semi.start, semi.end))
  ELSE currentRow

\* a plausible slip: the parsed expression is always appended, the pending slot stays
putElementAppends(list, pendingIndex, el) == Append(list, el)

\* if (pendingIndex !== null) list[pendingIndex] = el else list.push(el)
\* (elements in parseVector, currentRow in parseMatrix)
putElement(list, pendingIndex, el) ==
  IF pendingIndex # null THEN [list EXCEPT ![pendingIndex + 1] = el]
  ELSE Append(list, el)

RECURSIVE parseExpression(_), parseAddSub(_), parseAddSubLoop(_, _), parseMul(_),
          parseMulLoop(_, _), parsePrimary(_), parseVector(_),
          parseVectorLoop(_, _, _), parseMatrix(_), parseMatrixLoop(_, _, _, _)

parseExpression(st) == parseAddSub(st)

\* left = { kind: 'BinaryExpression', op, left, right, span }
binaryExpression(op, left, right) ==
  [kind |-> "BinaryExpression", op |-> op, left |-> left, right |-> right,
   span |-> Span(left.span.start, right.span.end)]

\* the operand a closing token or EOF stands for: the token is not consumed
operandBefore(nextTok, st) == [expr |-> missingOperand(nextTok), st |-> st]

\* the end of an iteration of parseAddSub's loop, r the right operand and the state after it
addSubIteration(left, opTok, st, r) ==
  IF r.st.outcome # "ok" THEN r
  ELSE IF r.st.i = st.i THEN diverge(r.st)
  ELSE parseAddSubLoop(binaryExpression(opTok.value[1], left, r.expr), r.st)

\* the while loop of parseAddSub
parseAddSubLoop(left, st) ==
  IF undefinedAt(st) THEN throw(st)
  ELSE IF at(st).type \notin {"Plus", "Minus"} THEN [expr |-> left, st |-> st]
  ELSE
    LET opTok == eat(st).tok
        st1 == eat(st).st
    IN
    IF undefinedAt(st1) THEN throw(st1)
    ELSE IF at(st1).type \in Closers
    THEN addSubIteration(left, opTok, st, operandBefore(at(st1), st1))
    ELSE addSubIteration(left, opTok, st, parseMul(st1))

\* parseAddSub once its first operand l is parsed
addSubFrom(l) == IF l.st.outcome # "ok" THEN l ELSE parseAddSubLoop(l.expr, l.st)

parseAddSub(st) == addSubFrom(parseMul(st))

\* the end of an iteration of parseMul's loop, r the right operand and the state after it
mulIteration(left, opTok, st, r) ==
  LET op == IF opTok.type = "Star" THEN "*"
            ELSE IF opTok.type = "Dot" THEN "·" ELSE "×"
  IN
  IF r.st.outcome # "ok" THEN r
  ELSE IF r.st.i = st.i THEN diverge(r.st)
  ELSE parseMulLoop(binaryExpression(op, left, r.expr), r.st)

\* the while loop of parseMul
parseMulLoop(left, st) ==
  IF undefinedAt(st) THEN throw(st)
  ELSE IF at(st).type \notin {"Star", "Dot", "Cross"} THEN [expr |-> left, st |-> st]
  ELSE
    LET opTok == eat(st).tok
        st1 == eat(st).st
    IN
    IF undefinedAt(st1) THEN throw(st1)
    ELSE IF at(st1).type \in Closers
    THEN mulIteration(left, opTok, st, operandBefore(at(st1), st1))
    ELSE mulIteration(left, opTok, st, parsePrimary(st1))

\* a plausible slip: the multiplicative tier is skipped
parseMulSkipped(st) == parsePrimary(st)

\* parseMul once its first operand l is parsed
mulFrom(l) == IF l.st.outcome # "ok" THEN l ELSE parseMulLoop(l.expr, l.st)

parseMul(st) == mulFrom(parsePrimary(st))

\* a plausible slip: the default branch consumes the token even when it is EOF
unexpectedTokenEatsEOF(st) ==
  LET t == at(st)
  IN  [expr |-> placeholder("expression", t.start, t.end), st |-> eat(st).st]

\* the default branch of parsePrimary: a placeholder over the unexpected token,
\* which is consumed unless it is EOF
unexpectedToken(st) ==
  LET t == at(st)
      start == t.start
  IN  [expr |-> placeholder("expression", start, t.end),
       st |-> IF t.type # "EOF" THEN eat(st).st ELSE st]

\* const r = eat(st, RParen); const end = r ? r.end : at(st).start
closeGroup(l, e, r) ==
  [expr |-> [kind |-> "Group", expr |-> e.expr,
             span |-> Span(l.start, IF r.tok # Undefined THEN r.tok.end ELSE at(r.st).start)],
   st |-> r.st]

\* the LParen case of parsePrimary once the inner expression e is parsed
groupAround(l, e) ==
  IF e.st.outcome # "ok" THEN e
  ELSE IF undefinedAt(e.st) THEN throw(e.st)
  ELSE closeGroup(l, e, eatType(e.st, "RParen"))

parsePrimary(st) ==
  IF undefinedAt(st) THEN throw(st)
  ELSE
    LET t == at(st)
    IN
    CASE t.type = "Number" ->
           [expr |-> [kind |-> "NumberLiteral", value |-> Number(t.value),
                      span |-> Span(t.start, t.end)],
            st |-> eat(st).st]
      [] t.type = "Identifier" ->
           [expr |-> [kind |-> "Identifier", name |-> t.value,
                      span |-> Span(t.start, t.end)],
            st |-> eat(st).st]
      [] t.type = "LParen" -> groupAround(eat(st).tok, parseExpression(eat(st).st))
      [] t.type = "LAngle" -> parseVector(st)
      [] t.type = "LBracket" -> parseMatrix(st)
      [] OTHER -> unexpectedToken(st)

\* the end of an iteration of parseVector's loop, el the element and the state after it
vectorElement(elements, pendingIndex, st, el) ==
  IF el.st.outcome # "ok" THEN [elements |-> elements, st |-> el.st]
  ELSE IF el.st.i = st.i THEN [elements |-> elements, st |-> diverge(el.st).st]
  ELSE parseVectorLoop(putElement(elements, pendingIndex, el.expr), null, el.st)

\* the while loop of parseVector; returns [elements, st]
parseVectorLoop(elements, pendingIndex, st) ==
  IF undefinedAt(st) THEN [elements |-> elements, st |-> throw(st).st]
  ELSE IF at(st).type = "EOF" THEN [elements |-> elements, st |-> st]
  ELSE IF at(st).type = "RAngle" THEN [elements |-> elements, st |-> st]
  ELSE IF at(st).type = "Semicolon" \/ at(st).type = "RBracket"
  THEN [elements |-> elements, st |-> st]
  ELSE IF at(st).type = "Comma" THEN
    LET comma == eat(st).tok
        slot == placeholder("element", comma.start, comma.end)
        pushed == Append(elements, slot)
    IN  parseVectorLoop(pushed, Len(pushed) - 1, eat(st).st)
  ELSE vectorElement(elements, pendingIndex, st, parseExpression(st))

\* the VectorLiteral around the elements, r the closing ">" when there is one
vectorLiteral(l, elements, r) ==
  IF undefinedAt(r.st) /\ (r.tok = Undefined \/ (l.tok = Undefined /\ elements = <<>>))
  THEN throw(r.st)
  ELSE
    LET start == IF l.tok # Undefined THEN l.tok.start
                 ELSE IF elements # <<>> THEN elements[1].span.start
                 ELSE at(r.st).start
        end == IF r.tok # Undefined THEN r.tok.end ELSE at(r.st).start
    IN  [expr |-> [kind |-> "VectorLiteral", elements |-> elements,
                   span |-> Span(start, end)],
         st |-> reportUnclosed(r.st, r, "Unclosed vector; missing \">\"")]

\* parseVector after its loop
closeVector(l, loop) ==
  IF loop.st.outcome # "ok" THEN [expr |-> Undefined, st |-> loop.st]
  ELSE vectorLiteral(l, loop.elements, eatType(loop.st, "RAngle"))

parseVector(st) ==
  LET l == expect(st, "LAngle", "Expected \"<\" to start a vector")
  IN  closeVector(l, parseVectorLoop(<<>>, null, l.st))

\* the end of an iteration of parseMatrix's loop, cell the cell and the state after it
matrixCell(rows, currentRow, pendingIndex, st, cell) ==
  IF cell.st.outcome # "ok"
  THEN [rows |-> rows, currentRow |-> currentRow, st |-> cell.st]
  ELSE IF cell.st.i = st.i
  THEN [rows |-> rows, currentRow |-> currentRow, st |-> diverge(cell.st).st]
  ELSE parseMatrixLoop(rows, putElement(currentRow, pendingIndex, cell.expr), null, cell.st)

\* the while loop of parseMatrix; returns [rows, currentRow, st]
parseMatrixLoop(rows, currentRow, pendingIndex, st) ==
  IF undefinedAt(st) THEN [rows |-> rows, currentRow |-> currentRow, st |-> throw(st).st]
  ELSE IF at(st).type = "EOF" THEN [rows |-> rows, currentRow |-> currentRow, st |-> st]
  ELSE
    LET tok == at(st)
    IN
    IF tok.type = "RBracket" THEN [rows |-> rows, currentRow |-> currentRow, st |-> st]
    ELSE IF tok.type = "Semicolon" THEN
      LET semi == eat(st).tok
      IN  parseMatrixLoop(Append(rows, completedRow(currentRow, semi)),
                          <<placeholder("element", semi.start, semi.end)>>, 0, eat(st).st)
    ELSE IF tok.type = "Comma" THEN
      LET comma == eat(st).tok
          slot == placeholder("element", comma.start, comma.end)
          pushed == Append(currentRow, slot)
      IN  parseMatrixLoop(rows, pushed, Len(pushed) - 1, eat(st).st)
    ELSE IF tok.type = "RAngle" \/ tok.type = "RParen"
    THEN [rows |-> rows, currentRow |-> currentRow, st |-> st]
    ELSE matrixCell(rows, currentRow, pendingIndex, st, parseExpression(st))

\* the MatrixLiteral around the rows, r the closing "]" when there is one
matrixLiteral(l, rows, r) ==
  IF undefinedAt(r.st) /\ r.tok = Undefined
  THEN throw(r.st)
  ELSE
    LET start == IF l.tok # Undefined THEN l.tok.start ELSE rows[1][1].span.start
        end == IF r.tok # Undefined THEN r.tok.end ELSE at(r.st).start
    IN  [expr |-> [kind |-> "MatrixLiteral", rows |-> rows, span |-> Span(start, end)],
         st |-> reportUnclosed(r.st, r, "Unclosed matrix; missing \"]\"")]

\* if (currentRow.length === 0) currentRow.push(placeholder('element', ...))
lastRow(currentRow, st) ==
  IF Len(currentRow) = 0
  THEN <<placeholder("element", at(st).start, at(st).end)>>
  ELSE currentRow

\* parseMatrix after its loop
closeMatrix(l, loop) ==
  IF loop.st.outcome # "ok" THEN [expr |-> Undefined, st |-> loop.st]
  ELSE matrixLiteral(l, Append(loop.rows, lastRow(loop.currentRow, loop.st)),
                     eatType(loop.st, "RBracket"))

parseMatrix(st) ==
  LET l == expect(st, "LBracket", "Expected \"[\" to start a matrix")
  IN  closeMatrix(l, parseMatrixLoop(<<>>, <<>>, null, l.st))

\* { expr, errors: st.errors }, with how the call ended and the final st.i
parseResult(r) ==
  [expr |-> r.expr, errors |-> r.st.errors, outcome |-> r.st.outcome, i |-> r.st.i]

\* parse(tokens)
parse(toks) == parseResult(parseExpression(State(toks)))

(***************************************************************************)
(* Simplifier.                                                             *)
(***************************************************************************)
spanOf(a, b) == Span(a.span.start, b.span.end)

num(n, s) == [kind |-> "NumberLiteral", value |-> n, span |-> s]

isNumber(e) == e.kind = "NumberLiteral"
isVector(e) == e.kind = "VectorLiteral"
isMatrix(e) == e.kind = "MatrixLiteral"
isPlaceholder(e) == e.kind = "Placeholder"

binary(op, a, b) ==
  [kind |-> "BinaryExpression", op |-> op, left |-> a, right |-> b, span |-> spanOf(a, b)]

mul(a, b) == binary("*", a, b)
add(a, b) == binary("+", a, b)
sub(a, b) == binary("-", a, b)

\* terms.slice(1).reduce((acc, t) => add(acc, t), terms[0]), 0 for no terms
RECURSIVE sumFrom(_, _)
sumFrom(acc, terms) ==
  IF terms = <<>> THEN acc ELSE sumFrom(add(acc, Head(terms)), Tail(terms))

\* a plausible slip: the reduction starts one term too late, terms.slice(2)
sumExprFromThird(terms) ==
  IF Len(terms) = 0 THEN num(0, Span(0, 0))
  ELSE sumFrom(terms[1], SubSeq(terms, 3, Len(terms)))

sumExpr(terms) ==
  IF Len(terms) = 0 THEN num(0, Span(0, 0)) ELSE sumFrom(terms[1], Tail(terms))

\* dims(m): { rows, cols }, or null when the rows differ in length
noDims == [rows |-> -1, cols |-> -1]

dims(m) ==
  LET rows == Len(m.rows)
  IN  IF rows = 0 THEN [rows |-> 0, cols |-> 0]
      ELSE IF \E r \in 2..rows : Len(m.rows[r]) # Len(m.rows[1]) THEN noDims
      ELSE [rows |-> rows, cols |-> Len(m.rows[1])]

\* left.rows.length === right.rows.length && left.rows.every((r, i) => ...)
sameShape(left, right) ==
  /\ Len(left.rows) = Len(right.rows)
  /\ \A r \in 1..Len(left.rows) : Len(left.rows[r]) = Len(right.rows[r])

\* a plausible slip: the operands of the subtraction are taken in the wrong order
arithSwapped(op, a, b) ==
  CASE op = "+" -> a + b
    [] op = "-" -> b - a
    [] op = "*" -> a * b
    [] op = "·" -> a * b

\* the switch of the Number (+) Number rule: the value for each of its four operators
arith(op, a, b) ==
  CASE op = "+" -> a + b
    [] op = "-" -> a - b
    [] op = "*" -> a * b
    [] op = "·" -> a * b

\* a plausible slip: the node is built anew, its span taken from the new children
reconstructRespanned(bin, left, right) == binary(bin.op, left, right)

\* { ...bin, left, right }
reconstruct(bin, left, right) == [bin EXCEPT !.left = left, !.right = right]

RECURSIVE simplify(_), simplifyBinary(_)

\* the elements simplify(a op b) of two vectors of equal length
elementwiseUnsimplified(op, as, bs) == [k \in 1..Len(as) |-> binary(op, as[k], bs[k])]

\* a plausible slip: the operands of each element are taken in the wrong order
elementwiseSwapped(op, as, bs) == [k \in 1..Len(as) |-> simplify(binary(op, bs[k], as[k]))]

elementwise(op, as, bs) == [k \in 1..Len(as) |-> simplify(binary(op, as[k], bs[k]))]

\* a plausible slip: the second component with its two products exchanged
crossSecondSwapped(a, b) ==
  <<simplify(sub(mul(a[2], b[3]), mul(a[3], b[2]))),
    simplify(sub(mul(a[1], b[3]), mul(a[3], b[1]))),
    simplify(sub(mul(a[1], b[2]), mul(a[2], b[1])))>>

\* [c1, c2, c3] of the cross product of [a1, a2, a3] and [b1, b2, b3]
cross(a, b) ==
  <<simplify(sub(mul(a[2], b[3]), mul(a[3], b[2]))),
    simplify(sub(mul(a[3], b[1]), mul(a[1], b[3]))),
    simplify(sub(mul(a[1], b[2]), mul(a[2], b[1])))>>

scalarMat(m, k, s) ==
  [kind |-> "MatrixLiteral",
   rows |-> [r \in 1..Len(m.rows) |->
               [c \in 1..Len(m.rows[r]) |->
                  simplify(mul(num(k, m.rows[r][c].span), m.rows[r][c]))]],
   span |-> s]

\* a plausible slip: the expression inside the Group is returned as it is
ungroupUnsimplified(expr) == expr.expr

\* case 'Group': return simplify(expr.expr)
ungroup(expr) == simplify(expr.expr)

simplify(expr) ==
  CASE expr.kind = "Group" -> ungroup(expr)
    [] expr.kind \in {"NumberLiteral", "Identifier", "Placeholder"} -> expr
    [] expr.kind = "VectorLiteral" ->
         [expr EXCEPT !.elements = [k \in 1..Len(expr.elements) |-> simplify(expr.elements[k])]]
    [] expr.kind = "MatrixLiteral" ->
         [expr EXCEPT !.rows =
            [r \in 1..Len(expr.rows) |->
               [c \in 1..Len(expr.rows[r]) |-> simplify(expr.rows[r][c])]]]
    [] expr.kind = "BinaryExpression" -> simplifyBinary(expr)
    [] OTHER -> expr

simplifyBinary(bin) ==
  LET left == simplify(bin.left)
      right == simplify(bin.right)
      keep == reconstruct(bin, left, right)
      dA == dims(left)
      dB == dims(right)
  IN
  \* If placeholders are involved, keep structure
  IF isPlaceholder(left) \/ isPlaceholder(right) THEN keep
  \* Number (+) Number
  ELSE IF isNumber(left) /\ isNumber(right) /\ bin.op \in {"+", "-", "*", "·"} THEN
    num(arith(bin.op, left.value, right.value), spanOf(left, right))
  \* Vector +/- Vector (elementwise)
  ELSE IF isVector(left) /\ isVector(right) /\ bin.op \in {"+", "-"} THEN
    IF Len(left.elements) = Len(right.elements)
    THEN [kind |-> "VectorLiteral",
          elements |-> elementwise(bin.op, left.elements, right.elements),
          span |-> spanOf(left, right)]
    ELSE keep
  \* Scalar * Vector or Vector * Scalar
  ELSE IF bin.op = "*" /\ isNumber(left) /\ isVector(right) THEN
    [kind |-> "VectorLiteral",
     elements |-> [k \in 1..Len(right.elements) |-> simplify(mul(left, right.elements[k]))],
     span |-> spanOf(left, right)]
  ELSE IF bin.op = "*" /\ isVector(left) /\ isNumber(right) THEN
    [kind |-> "VectorLiteral",
     elements |-> [k \in 1..Len(left.elements) |-> simplify(mul(left.elements[k], right))],
     span |-> spanOf(left, right)]
  \* Matrix * Vector (column vector)
  ELSE IF /\ bin.op = "*" /\ isMatrix(left) /\ isVector(right)
          /\ dA # noDims /\ dA.cols = Len(right.elements) THEN
    [kind |-> "VectorLiteral",
     elements |->
       [r \in 1..dA.rows |->
          simplify(sumExpr([c \in 1..dA.cols |-> mul(left.rows[r][c], right.elements[c])]))],
     span |-> spanOf(left, right)]
  \* Matrix * Matrix
  ELSE IF /\ bin.op = "*" /\ isMatrix(left) /\ isMatrix(right)
          /\ dA # noDims /\ dB # noDims /\ dA.cols = dB.rows THEN
    [kind |-> "MatrixLiteral",
     rows |->
       [r \in 1..dA.rows |->
          [c \in 1..dB.cols |->
             simplify(sumExpr([k \in 1..dA.cols |-> mul(left.rows[r][k], right.rows[k][c])]))]],
     span |-> spanOf(left, right)]
  \* Scalar * Matrix or Matrix * Scalar
  ELSE IF bin.op = "*" /\ isNumber(left) /\ isMatrix(right) THEN
    scalarMat(right, left.value, spanOf(left, right))
  ELSE IF bin.op = "*" /\ isMatrix(left) /\ isNumber(right) THEN
    scalarMat(left, right.value, spanOf(left, right))
  \* Elementwise +/- if same dims
  ELSE IF /\ bin.op \in {"+", "-"} /\ isMatrix(left) /\ isMatrix(right)
          /\ sameShape(left, right) THEN
    [kind |-> "MatrixLiteral",
     rows |-> [r \in 1..Len(left.rows) |->
                 elementwise(bin.op, left.rows[r], right.rows[r])],
     span |-> spanOf(left, right)]
  \* Vector . Vector (dot product)
  ELSE IF bin.op = "·" /\ isVector(left) /\ isVector(right) THEN
    IF Len(left.elements) = Len(right.elements)
    THEN simplify(sumExpr([k \in 1..Len(left.elements) |->
                             mul(left.elements[k], right.elements[k])]))
    ELSE keep
  \* Vector x Vector (cross product, 3D only)
  ELSE IF bin.op = "×" /\ isVector(left) /\ isVector(right) THEN
    IF Len(left.elements) = 3 /\ Len(right.elements) = 3
    THEN [kind |-> "VectorLiteral",
          elements |-> cross(left.elements, right.elements),
          span |-> spanOf(left, right)]
    ELSE keep
  \* Default: reconstruct with simplified children
  ELSE keep

(***************************************************************************)
(* The pipeline the editor runs on its text: toks = lex(text), then        *)
(* parse(toks).  The text is supplied one character at a time.             *)
(***************************************************************************)
\* the characters source texts are drawn from
Chars == {"1", "2", "+", "*", ",", ";", "<", ">", "[", "]", "(", ")", " "}

NoResult == [expr |-> Undefined, errors |-> <<>>, outcome |-> "none", i |-> 0]

Init ==
  /\ phase = "text"
  /\ text = <<>>
  /\ tokens = <<>>
  /\ result = NoResult
  /\ simplified = Undefined
  /\ cursor = 0

\* the next character of the source text
Input(ch) ==
  /\ phase = "text"
  /\ Len(text) < MaxLen
  /\ text' = Append(text, ch)
  /\ UNCHANGED <<phase, tokens, result, simplified, cursor>>

\* const { expr, errors } = parse(lex(text)); const simplified = simplify(expr)
Render ==
  /\ phase = "text"
  /\ tokens' = lex(text)
  /\ result' = parse(tokens')
  /\ simplified' = IF result'.outcome = "ok" THEN simplify(result'.expr) ELSE Undefined
  /\ phase' = "parsed"
  /\ UNCHANGED <<text, cursor>>

Next ==
  \/ \E ch \in Chars : Input(ch)
  \/ Render

Spec == Init /\ [][Next]_vars

(***************************************************************************)
(* Trees.                                                                  *)
(***************************************************************************)
Range(f) == {f[k] : k \in DOMAIN f}

RECURSIVE Flatten(_)
Flatten(rows) == IF rows = <<>> THEN <<>> ELSE Head(rows) \o Flatten(Tail(rows))

\* the children of a node, in source order
Children(e) ==
  CASE e.kind = "BinaryExpression" -> <<e.left, e.right>>
    [] e.kind = "Group" -> <<e.expr>>
    [] e.kind = "VectorLiteral" -> e.elements
    [] e.kind = "MatrixLiteral" -> Flatten(e.rows)
    [] OTHER -> <<>>

\* every node of the tree rooted at e
RECURSIVE Nodes(_)
Nodes(e) == {e} \cup UNION {Nodes(c) : c \in Range(Children(e))}

IsSpan(s) == DOMAIN s = {"start", "end"} /\ s.start \in Nat /\ s.end \in Nat

\* e is one of the seven variants of Expression, and so is every node below it
RECURSIVE IsExpression(_)
IsExpression(e) ==
  /\ "kind" \in DOMAIN e
  /\ CASE e.kind = "NumberLiteral" -> DOMAIN e = {"kind", "value", "span"}
       [] e.kind = "Identifier" -> DOMAIN e = {"kind", "name", "span"}
       [] e.kind = "Placeholder" ->
            /\ DOMAIN e = {"kind", "expected", "span"}
            /\ e.expected \in {"expression", "vector", "matrix", "row", "element"}
       [] e.kind = "VectorLiteral" -> DOMAIN e = {"kind", "elements", "span"}
       [] e.kind = "MatrixLiteral" -> DOMAIN e = {"kind", "rows", "span"}
       [] e.kind = "BinaryExpression" ->
            /\ DOMAIN e = {"kind", "op", "left", "right", "span"}
            /\ e.op \in {"+", "-", "*", "·", "×"}
       [] e.kind = "Group" -> DOMAIN e = {"kind", "expr", "span"}
       [] OTHER -> FALSE
  /\ IsSpan(e.span)
  /\ \A c \in Range(Children(e)) : IsExpression(c)

Parsed == phase = "parsed"

(***************************************************************************)
(* C1: for every source text, parse(lex(text)) returns (it neither reads   *)
(* past the last token nor loops without consuming a token) one root       *)
(* Expression and a list of diagnostics, and the parser's index ends at or *)
(* before the EOF token, which is the last token: EOF is never consumed.   *)
(***************************************************************************)
C1_ParseTotal ==
  Parsed =>
    /\ result.outcome = "ok"
    /\ IsExpression(result.expr)
    /\ DOMAIN result.errors = 1..Len(result.errors)
    /\ 0 <= result.i /\ result.i <= Len(tokens) - 1
    /\ \A k \in 1..Len(tokens) : tokens[k].type = "EOF" <=> k = Len(tokens)

\* a parse that ran the vector loop over an unexpected token up to EOF
C1_Witness ==
  /\ Parsed
  /\ result.outcome = "ok"
  /\ result.expr.kind = "VectorLiteral"
  /\ \E el \in Range(result.expr.elements) : el.kind = "Placeholder"
  /\ Len(tokens) >= 4
  /\ result.i = Len(tokens) - 1

(***************************************************************************)
(* C3: in the tree parse(lex(text)) returns, every node has                *)
(* span.start <= span.end and the span of every composite node contains    *)
(* the span of each of its children.                                       *)
(***************************************************************************)
Contains(outer, inner) == outer.start <= inner.start /\ inner.end <= outer.end

SpanCoverage(e) ==
  \A n \in Nodes(e) :
    /\ n.span.start <= n.span.end
    /\ \A c \in Range(Children(n)) : Contains(n.span, c.span)

C3_SpanCoverage == Parsed => SpanCoverage(result.expr)

(***************************************************************************)
(* Tokens a literal consumed itself.  A literal's span runs from its       *)
(* opening token to the end of the last token consumed for it, so the      *)
(* tokens inside the span are those consumed by the literal or below it;   *)
(* a separator is the literal's own when no element other than the slot    *)
(* made for it covers it.                                                  *)
(***************************************************************************)
TokenSpan(k) == Span(tokens[k].start, tokens[k].end)

TokensIn(span) ==
  {k \in 1..Len(tokens) : tokens[k].type # "EOF" /\ Contains(span, TokenSpan(k))}

slotOf(k) == placeholder("element", tokens[k].start, tokens[k].end)

OwnSeparators(list, span, type) ==
  {k \in TokensIn(span) :
     /\ tokens[k].type = type
     /\ \A el \in Range(list) : Contains(el.span, TokenSpan(k)) => el = slotOf(k)}

\* the token types at which the vector loop does not parse an expression
VectorStops == {"EOF", "RAngle", "Semicolon", "RBracket", "Comma"}

\* the token types at which the matrix loop does not parse an expression
MatrixStops == {"EOF", "RBracket", "Semicolon", "Comma", "RAngle", "RParen"}

\* the positions of list that hold the slot of separator k or the expression
\* that starts at the token right after it
BelongsTo(list, k, stops) ==
  {j \in 1..Len(list) :
     \/ list[j] = slotOf(k)
     \/ tokens[k + 1].type \notin stops /\ list[j].span.start = tokens[k + 1].start}

InSourceOrder(list) ==
  \A j \in 1..(Len(list) - 1) : list[j].span.start < list[j + 1].span.start

(***************************************************************************)
(* C5: eager slots of parseVector.  In every VectorLiteral of the parsed   *)
(* tree the elements are in source order; each comma the vector consumed   *)
(* accounts for exactly one element, which is the Placeholder              *)
(* {expected: 'element'} spanning the comma when no expression follows the *)
(* comma directly, and otherwise the expression that starts right after    *)
(* the comma, with no Placeholder left for that comma; no other element is *)
(* an 'element' Placeholder.  So k comma-separated operands give exactly k *)
(* elements and no Placeholder.                                            *)
(***************************************************************************)
EagerSlots(v) ==
  LET els == v.elements
      commas == OwnSeparators(els, v.span, "Comma")
  IN
  /\ InSourceOrder(els)
  /\ \A k \in commas :
       /\ Cardinality(BelongsTo(els, k, VectorStops)) = 1
       /\ \A j \in BelongsTo(els, k, VectorStops) :
            IF tokens[k + 1].type \in VectorStops
            THEN els[j] = slotOf(k)
            ELSE els[j] # slotOf(k)
  /\ \A j \in 1..Len(els) :
       (els[j].kind = "Placeholder" /\ els[j].expected = "element")
         => \E k \in commas : els[j] = slotOf(k)
  /\ (/\ commas # {}
      /\ \A k \in commas : tokens[k + 1].type \notin VectorStops
      /\ els[1].span.start < tokens[CHOOSE k \in commas : \A m \in commas : k <= m].start
      /\ \A j \in 1..Len(els) : j = 1 \/ \E k \in commas : j \in BelongsTo(els, k, VectorStops))
     => (/\ Len(els) = Cardinality(commas) + 1
         /\ \A j \in 1..Len(els) : els[j].kind # "Placeholder" \/ els[j].expected # "element")

C5_EagerSlots ==
  Parsed => \A v \in Nodes(result.expr) : v.kind = "VectorLiteral" => EagerSlots(v)

\* "<1," gives [1, Placeholder] and "<1,2" gives [1, 2]: the slot is overwritten
C5_Witness ==
  /\ Parsed
  /\ result.expr.kind = "VectorLiteral"
  /\ \/ /\ text = <<"<", "1", ",">>
        /\ Len(result.expr.elements) = 2
        /\ result.expr.elements[1].kind = "NumberLiteral"
        /\ result.expr.elements[2] = placeholder("element", 2, 3)
     \/ /\ text = <<"<", "1", ",", "1">>
        /\ Len(result.expr.elements) = 2
        /\ result.expr.elements[1].kind = "NumberLiteral"
        /\ result.expr.elements[2].kind = "NumberLiteral"

(***************************************************************************)
(* C6: every MatrixLiteral of the parsed tree has at least one row and no  *)
(* empty row; it has one row more than the semicolons the matrix consumed; *)
(* the row started by a semicolon begins with the Placeholder              *)
(* {expected: 'element'} spanning that semicolon when no cell follows the  *)
(* semicolon directly (and is exactly that one Placeholder unless a comma  *)
(* follows), and otherwise begins with the cell that starts right after    *)
(* the semicolon, the Placeholder being overwritten.                       *)
(***************************************************************************)
RowEagerness(m) ==
  LET semis == OwnSeparators(Flatten(m.rows), m.span, "Semicolon")
      rank(k) == Cardinality({q \in semis : q <= k})
  IN
  /\ Len(m.rows) >= 1
  /\ \A r \in 1..Len(m.rows) : Len(m.rows[r]) >= 1
  /\ Len(m.rows) = 1 + Cardinality(semis)
  /\ \A k \in semis :
       LET row == m.rows[rank(k) + 1]
           nextType == tokens[k + 1].type
       IN
       /\ nextType \in MatrixStops => row[1] = slotOf(k)
       /\ nextType \in MatrixStops \ {"Comma"} => row = <<slotOf(k)>>
       /\ nextType \notin MatrixStops =>
            /\ row[1].span.start = tokens[k + 1].start
            /\ \A c \in 1..Len(row) : row[c] # slotOf(k)

C6_RowEagerness ==
  Parsed => \A m \in Nodes(result.expr) : m.kind = "MatrixLiteral" => RowEagerness(m)

\* "[1;" gives rows [[1], [Placeholder]]; in "[1;1" the cell overwrites the slot
C6_Witness ==
  /\ Parsed
  /\ result.expr.kind = "MatrixLiteral"
  /\ Len(result.expr.rows) = 2
  /\ result.expr.rows[1][1].kind = "NumberLiteral"
  /\ \/ text = <<"[", "1", ";">> /\ result.expr.rows[2] = <<placeholder("element", 2, 3)>>
     \/ /\ text = <<"[", "1", ";", "1">>
        /\ Len(result.expr.rows[2]) = 1
        /\ result.expr.rows[2][1].kind = "NumberLiteral"

(***************************************************************************)
(* C7: a vector (matrix) literal left without its closing ">" ("]") is     *)
(* still returned, and one diagnostic naming the missing delimiter is      *)
(* recorded for each such literal: in a text without any ">" ("]") there   *)
(* are as many of these diagnostics as VectorLiterals (MatrixLiterals) in  *)
(* the tree.  A literal that runs to EOF, as every one does when the text  *)
(* has no token that stops its loop, has its span end at length(text) and  *)
(* holds its elements in source order.                                     *)
(***************************************************************************)
NoToken(types) == \A k \in 1..Len(tokens) : tokens[k].type \notin types

VectorDiagnostic == <<"Unclosed vector; missing \">\"">>
MatrixDiagnostic == <<"Unclosed matrix; missing \"]\"">>

Count(diagnostic) ==
  Cardinality({k \in 1..Len(result.errors) : result.errors[k] = diagnostic})

NodesOfKind(kind) == {n \in Nodes(result.expr) : n.kind = kind}

C7_UnclosedLiterals ==
  Parsed =>
    /\ NoToken({"RAngle"}) =>
         Count(VectorDiagnostic) = Cardinality(NodesOfKind("VectorLiteral"))
    /\ NoToken({"RBracket"}) =>
         Count(MatrixDiagnostic) = Cardinality(NodesOfKind("MatrixLiteral"))
    /\ NoToken({"RAngle", "Semicolon", "RBracket"}) =>
         \A v \in NodesOfKind("VectorLiteral") :
           /\ v.span.end = Len(text)
           /\ InSourceOrder(v.elements)
           /\ result.errors # <<>>
    /\ NoToken({"RBracket", "RAngle", "RParen"}) =>
         \A m \in NodesOfKind("MatrixLiteral") :
           /\ m.span.end = Len(text)
           /\ \A r \in 1..Len(m.rows) : InSourceOrder(m.rows[r])
           /\ result.errors # <<>>
    /\ text = <<"<", "1", ",", "2">> =>
         /\ result.expr.kind = "VectorLiteral"
         /\ Len(result.expr.elements) = 2
         /\ \A j \in 1..2 : result.expr.elements[j].kind = "NumberLiteral"
                            /\ result.expr.elements[j].value = j
         /\ result.expr.span.end = 4
         /\ result.errors = <<VectorDiagnostic>>

\* an unclosed vector that holds an unclosed matrix: two diagnostics
C7_Witness ==
  /\ Parsed
  /\ result.expr.kind = "VectorLiteral"
  /\ Len(result.expr.elements) = 2
  /\ result.expr.elements[2].kind = "MatrixLiteral"
  /\ result.expr.span.end = Len(text)
  /\ result.errors = <<MatrixDiagnostic, VectorDiagnostic>>

(***************************************************************************)
(* C8: a Group whose ")" is missing (every Group, in a text without ")")   *)
(* has its span end at the start offset of a token, and a diagnostic       *)
(* ending in "at <that offset>" is among the diagnostics.                  *)
(***************************************************************************)
EndsAtToken(g) == \E k \in 1..Len(tokens) : tokens[k].start = g.span.end

ReportedAt(offset) ==
  \E k \in 1..Len(result.errors) :
    /\ Len(result.errors[k]) = 3
    /\ result.errors[k][2] = " at "
    /\ result.errors[k][3] = offset

C8_MissingParenDiagnostic ==
  (Parsed /\ NoToken({"RParen"})) =>
    \A g \in NodesOfKind("Group") : EndsAtToken(g) /\ ReportedAt(g.span.end)

\* the part of C8 the parser does implement: where the unclosed Group ends
C8_GroupEndsAtToken ==
  (Parsed /\ NoToken({"RParen"})) => \A g \in NodesOfKind("Group") : EndsAtToken(g)

(***************************************************************************)
(* C9: where an operand is expected and the current token is EOF, ">",     *)
(* "]" or ")", the operand is the Placeholder {expected: 'expression'}     *)
(* spanning that token, and the parse completes.  For an operator: every   *)
(* BinaryExpression whose right operand starts at such a token has that    *)
(* Placeholder as right child, and every consumed operator token followed  *)
(* by such a token (and not itself recovered as an unexpected token) has   *)
(* its BinaryExpression.  For a primary: at the start of the text and      *)
(* right after "(", the first operand is that Placeholder.                 *)
(***************************************************************************)
OperatorTypes == {"Plus", "Minus", "Star", "Dot", "Cross"}

OperatorOf(type) ==
  CASE type = "Plus" -> "+" [] type = "Minus" -> "-" [] type = "Star" -> "*"
    [] type = "Dot" -> "·" [] type = "Cross" -> "×"

\* the index of the token that starts at an offset
TokenStartingAt(offset) == CHOOSE k \in 1..Len(tokens) : tokens[k].start = offset

ExpressionSlot(k) == placeholder("expression", tokens[k].start, tokens[k].end)

\* the first operand of an expression
RECURSIVE Leftmost(_)
Leftmost(e) == IF e.kind = "BinaryExpression" THEN Leftmost(e.left) ELSE e

C9_MissingOperand ==
  Parsed =>
    /\ result.outcome = "ok"
    /\ IsExpression(result.expr)
    /\ \A b \in NodesOfKind("BinaryExpression") :
         /\ \E k \in 1..Len(tokens) : tokens[k].start = b.right.span.start
         /\ tokens[TokenStartingAt(b.right.span.start)].type \in Closers
              => b.right = ExpressionSlot(TokenStartingAt(b.right.span.start))
    /\ \A k \in 1..(Len(tokens) - 1) :
         (/\ tokens[k].type \in OperatorTypes
          /\ tokens[k + 1].type \in Closers
          /\ k <= result.i
          /\ ExpressionSlot(k) \notin Nodes(result.expr))
         => \E b \in NodesOfKind("BinaryExpression") :
              /\ b.op = OperatorOf(tokens[k].type)
              /\ b.left.span.end <= tokens[k].start
              /\ b.right = ExpressionSlot(k + 1)
              /\ b.span = Span(b.left.span.start, b.right.span.end)
    /\ tokens[1].type \in Closers => Leftmost(result.expr) = ExpressionSlot(1)
    /\ \A g \in NodesOfKind("Group") :
         tokens[TokenStartingAt(g.span.start) + 1].type \in Closers
           => Leftmost(g.expr) = ExpressionSlot(TokenStartingAt(g.span.start) + 1)

\* "1+>" or "<1*>": an operator directly before a closing delimiter
C9_Witness ==
  /\ Parsed
  /\ \E b \in NodesOfKind("BinaryExpression") :
       /\ b.left.kind = "NumberLiteral"
       /\ b.right.kind = "Placeholder"
       /\ b.right.expected = "expression"
       /\ b.right.span.start < b.right.span.end
       /\ tokens[TokenStartingAt(b.right.span.start)].type \in {"RAngle", "RBracket", "RParen"}

(***************************************************************************)
(* The tokenizer on its own, over an alphabet with every lexical class:    *)
(* digit, dot, letter, underscore, whitespace, an unknown character and    *)
(* single-character tokens.                                                *)
(***************************************************************************)
LexChars == {"1", ".", "x", "_", " ", "#", "+", "·"}

InputLex(ch) ==
  /\ phase = "text"
  /\ Len(text) < MaxLexLen
  /\ text' = Append(text, ch)
  /\ UNCHANGED <<phase, tokens, result, simplified, cursor>>

\* const toks = lex(text)
Tokenize ==
  /\ phase = "text"
  /\ tokens' = lex(text)
  /\ phase' = "lexed"
  /\ UNCHANGED <<text, result, simplified, cursor>>

NextLex ==
  \/ \E ch \in LexChars : InputLex(ch)
  \/ Tokenize

SpecLex == Init /\ [][NextLex]_vars

(***************************************************************************)
(* C4: lex(text) ends with an EOF token at start = end = length(text),     *)
(* which is its only EOF token; every other token has                      *)
(* 0 <= start < end <= length(text) and value = text[start, end); and the  *)
(* tokens are in source order without overlap.                             *)
(***************************************************************************)
C4_TokenSpans ==
  phase = "lexed" =>
    LET n == Len(tokens)
    IN
    /\ n >= 1
    /\ tokens[n] = Token("EOF", <<>>, Len(text), Len(text))
    /\ \A k \in 1..(n - 1) :
         /\ tokens[k].type # "EOF"
         /\ 0 <= tokens[k].start
         /\ tokens[k].start < tokens[k].end
         /\ tokens[k].end <= Len(text)
         /\ tokens[k].value = slice(text, tokens[k].start, tokens[k].end)
         /\ tokens[k].end <= tokens[k + 1].start

\* a number with a dot, a skipped character and an identifier before EOF
C4_Witness ==
  /\ phase = "lexed"
  /\ Len(tokens) = 3
  /\ tokens[1].type = "Number" /\ Len(tokens[1].value) = 2
  /\ tokens[2].type = "Identifier" /\ tokens[1].end < tokens[2].start
  /\ tokens[3].type = "EOF"

(***************************************************************************)
(* The parser on its own: parse is exported and takes any Token[], so the  *)
(* token sequence is supplied directly, one token at a time, each token    *)
(* one character wide (EOF zero-width) at the next offset.                 *)
(***************************************************************************)
TokenTypes ==
  {"Number", "Identifier", "Plus", "Minus", "Star", "Dot", "Cross", "LAngle", "RAngle",
   "LBracket", "RBracket", "LParen", "RParen", "Comma", "Semicolon", "EOF"}

TokenValue(type) ==
  CASE type = "Number" -> <<"1">>
    [] type = "Identifier" -> <<"x">>
    [] type = "Plus" -> <<"+">>
    [] type = "Minus" -> <<"-">>
    [] type = "Star" -> <<"*">>
    [] type = "Dot" -> <<"·">>
    [] type = "Cross" -> <<"×">>
    [] type = "LAngle" -> <<"<">>
    [] type = "RAngle" -> <<">">>
    [] type = "LBracket" -> <<"[">>
    [] type = "RBracket" -> <<"]">>
    [] type = "LParen" -> <<"(">>
    [] type = "RParen" -> <<")">>
    [] type = "Comma" -> <<",">>
    [] type = "Semicolon" -> <<";">>
    [] type = "EOF" -> <<>>

EndOfTokens(toks) == IF toks = <<>> THEN 0 ELSE toks[Len(toks)].end

PushToken(type) ==
  /\ phase = "text"
  /\ Len(tokens) < MaxTokens
  /\ tokens' = Append(tokens,
                      Token(type, TokenValue(type), EndOfTokens(tokens),
                            EndOfTokens(tokens) + Len(TokenValue(type))))
  /\ UNCHANGED <<phase, text, result, simplified, cursor>>

\* parse(tokens)
ParseTokens ==
  /\ phase = "text"
  /\ result' = parse(tokens)
  /\ phase' = "parsed"
  /\ UNCHANGED <<text, tokens, simplified, cursor>>

NextTokens ==
  \/ \E type \in TokenTypes : PushToken(type)
  \/ ParseTokens

SpecTokens == Init /\ [][NextTokens]_vars

(***************************************************************************)
(* C10: parse applied to any token sequence, the empty one included,       *)
(* returns one root Expression and a list of diagnostics.                  *)
(***************************************************************************)
C10_ParseAnyTokens ==
  Parsed =>
    /\ result.outcome = "ok"
    /\ IsExpression(result.expr)
    /\ DOMAIN result.errors = 1..Len(result.errors)

(***************************************************************************)
(* The simplifier on its own: simplify applied to expression trees that    *)
(* need not come from the parser.  The trees are binary expressions over   *)
(* operands of every kind, bare or wrapped in a vector, a matrix or a      *)
(* Group.                                                                  *)
(***************************************************************************)
Operators == {"+", "-", "*", "·", "×"}

group(e) == [kind |-> "Group", expr |-> e, span |-> Span(e.span.start - 1, e.span.end + 1)]

vector(els) ==
  [kind |-> "VectorLiteral", elements |-> els,
   span |-> IF els = <<>> THEN Span(7, 9) ELSE Span(els[1].span.start - 1, els[Len(els)].span.end + 1)]

matrix(rows) == [kind |-> "MatrixLiteral", rows |-> rows, span |-> Span(10, 20)]

Atoms ==
  { num(2, Span(1, 2)),
    [kind |-> "Identifier", name |-> <<"x">>, span |-> Span(3, 4)],
    placeholder("expression", 5, 5) }

Cells == { num(2, Span(1, 2)), [kind |-> "Identifier", name |-> <<"x">>, span |-> Span(3, 4)] }

Seqs(S, n) == UNION {[1..k -> S] : k \in 0..n}

Scalars == Atoms \cup {group(a) : a \in Atoms}
             \cup {binary(op, a, b) : op \in Operators, a \in Atoms, b \in Atoms}

Vectors == {vector(els) : els \in Seqs(Atoms, MaxVec)}

\* matrices of every shape, rows of unequal lengths included, filled with one cell
Shapes == Seqs(0..MaxCols, MaxRows)

Matrices ==
  {matrix([r \in 1..Len(shape) |-> [c \in 1..shape[r] |-> cell]]) :
     shape \in Shapes, cell \in Cells}

Operands == Scalars \cup Vectors \cup Matrices

Wrappers == {"none", "Group", "VectorLiteral", "MatrixLiteral"}

\* e bare, in a Group, as a parenthesized vector element, as a doubly parenthesized cell
wrap(w, e) ==
  CASE w = "Group" -> group(e)
    [] w = "VectorLiteral" -> vector(<<group(e)>>)
    [] w = "MatrixLiteral" -> matrix(<<<<group(group(e))>>>>)
    [] OTHER -> e

InitSimplify ==
  /\ phase = "expr"
  /\ text = <<>>
  /\ tokens = <<>>
  /\ \E op \in Operators, a \in Operands, b \in Operands, w \in Wrappers :
       result = [expr |-> wrap(w, binary(op, a, b)), errors |-> <<>>, outcome |-> "ok", i |-> 0]
  /\ simplified = Undefined
  /\ cursor = 0

\* const simplified = simplify(expr)
Simplify ==
  /\ phase = "expr"
  /\ simplified' = simplify(result.expr)
  /\ phase' = "simplified"
  /\ UNCHANGED <<text, tokens, result, cursor>>

NextSimplify == Simplify

SpecSimplify == InitSimplify /\ [][NextSimplify]_vars

(***************************************************************************)
(* C2: simplify is idempotent: for every expression e (numbers,            *)
(* identifiers, placeholders, groups, vectors, matrices with rows of any   *)
(* lengths, binary expressions with any of the five operators),            *)
(* simplify(simplify(e)) equals simplify(e) in kinds, ops, values, names,  *)
(* shapes and spans.                                                       *)
(***************************************************************************)
C2_Idempotent == phase = "simplified" => simplify(simplified) = simplified

\* a sum of two vectors was reduced elementwise to a vector of numbers
C2_Witness ==
  /\ phase = "simplified"
  /\ result.expr.kind = "BinaryExpression"
  /\ result.expr.op = "+"
  /\ result.expr.left.kind = "VectorLiteral"
  /\ simplified.kind = "VectorLiteral"
  /\ Len(simplified.elements) = MaxVec
  /\ \A k \in 1..MaxVec : simplified.elements[k] = num(4, Span(1, 2))

(***************************************************************************)
(* The parser on operator chains: texts over operands and the operator     *)
(* characters, "." included, which is an operator only where the tokenizer *)
(* does not take it into a number.                                         *)
(***************************************************************************)
OpChars == {"1", "x", "+", "-", "*", "·", "×", "."}

InputOps(ch) ==
  /\ phase = "text"
  /\ Len(text) < MaxOpsLen
  /\ text' = Append(text, ch)
  /\ UNCHANGED <<phase, tokens, result, simplified, cursor>>

\* const toks = lex(text); return parse(toks)
ParseText ==
  /\ phase = "text"
  /\ tokens' = lex(text)
  /\ result' = parse(tokens')
  /\ phase' = "parsed"
  /\ UNCHANGED <<text, simplified, cursor>>

NextOps ==
  \/ \E ch \in OpChars : InputOps(ch)
  \/ ParseText

SpecOps == Init /\ [][NextOps]_vars

(***************************************************************************)
(* C11: binary operators parse in two tiers, left-associatively: "*", the  *)
(* dot and the cross bind tighter than "+" and "-".  For a token chain     *)
(* operand (operator operand)* the tree is the one the grammar prescribes: *)
(* split at the last "+" or "-" if there is one, else at the last          *)
(* operator; so a op1 b op2 c is (a op1 b) op2 c unless op1 is additive    *)
(* and op2 multiplicative, where it is a op1 (b op2 c).                    *)
(***************************************************************************)
Additive == {"Plus", "Minus"}
Multiplicative == {"Star", "Dot", "Cross"}

opSymbol(type) ==
  CASE type = "Plus" -> "+" [] type = "Minus" -> "-" [] type = "Star" -> "*"
    [] type = "Dot" -> "·" [] type = "Cross" -> "×"

\* tokens 1..n-1 are operand (operator operand)*, token n is EOF
IsChain ==
  LET n == Len(tokens)
  IN  /\ n >= 2 /\ n % 2 = 0
      /\ \A k \in 1..(n - 1) :
           IF k % 2 = 1 THEN tokens[k].type \in {"Number", "Identifier"}
           ELSE tokens[k].type \in Additive \cup Multiplicative

leafOf(t) ==
  IF t.type = "Number"
  THEN [kind |-> "NumberLiteral", value |-> Number(t.value), span |-> Span(t.start, t.end)]
  ELSE [kind |-> "Identifier", name |-> t.value, span |-> Span(t.start, t.end)]

\* the tree of the multiplicative chain in tokens a..n
RECURSIVE termTree(_, _)
termTree(a, n) ==
  IF n = a THEN leafOf(tokens[a])
  ELSE LET l == termTree(a, n - 2)
           r == leafOf(tokens[n])
       IN  [kind |-> "BinaryExpression", op |-> opSymbol(tokens[n - 1].type),
            left |-> l, right |-> r, span |-> Span(l.span.start, r.span.end)]

\* the tree of the chain in tokens 1..n
RECURSIVE chainTree(_)
chainTree(n) ==
  LET low == {k \in 1..n : tokens[k].type \in Additive}
  IN  IF low = {} THEN termTree(1, n)
      ELSE LET k == CHOOSE j \in low : \A i \in low : i <= j
               l == chainTree(k - 1)
               r == termTree(k + 1, n)
           IN  [kind |-> "BinaryExpression", op |-> opSymbol(tokens[k].type),
                left |-> l, right |-> r, span |-> Span(l.span.start, r.span.end)]

C11_Precedence ==
  (Parsed /\ IsChain) =>
    /\ result.outcome = "ok"
    /\ result.expr = chainTree(Len(tokens) - 1)
    /\ result.errors = <<>>
    /\ tokens[result.i + 1].type = "EOF"

\* a - b . c, the ASCII dot lexed as the Dot operator: the tree is a - (b . c)
C11_Witness ==
  /\ Parsed
  /\ IsChain
  /\ Len(tokens) = 6
  /\ tokens[2].type = "Minus"
  /\ tokens[4].type = "Dot"
  /\ result.expr.op = "-"
  /\ result.expr.right.kind = "BinaryExpression"
  /\ result.expr.right.op = "·"

(***************************************************************************)
(* The simplifier on arithmetic: trees of numbers 0..MaxNum, Groups and    *)
(* binary expressions with "+", "-", "*" and the dot, two levels deep.     *)
(***************************************************************************)
ArithOperators == {"+", "-", "*", "·"}

Numbers == {num(n, Span(n, n + 1)) : n \in 0..MaxNum}

\* S with one more level: a Group or a binary expression over S
Deeper(S) ==
  S \cup {group(a) : a \in S} \cup {binary(op, a, b) : op \in ArithOperators, a \in S, b \in S}

InitArith ==
  /\ phase = "expr"
  /\ text = <<>>
  /\ tokens = <<>>
  /\ \E e \in Deeper(Deeper(Numbers)) :
       result = [expr |-> e, errors |-> <<>>, outcome |-> "ok", i |-> 0]
  /\ simplified = Undefined
  /\ cursor = 0

SpecArith == InitArith /\ [][NextSimplify]_vars

(***************************************************************************)
(* C12: for a tree of NumberLiterals, Groups and BinaryExpressions with    *)
(* "+", "-", "*" and the dot, simplify returns one NumberLiteral whose     *)
(* value is the arithmetic value of the tree, the dot read as              *)
(* multiplication.                                                         *)
(***************************************************************************)
RECURSIVE valueOf(_)
valueOf(e) ==
  CASE e.kind = "NumberLiteral" -> e.value
    [] e.kind = "Group" -> valueOf(e.expr)
    [] e.kind = "BinaryExpression" /\ e.op = "+" -> valueOf(e.left) + valueOf(e.right)
    [] e.kind = "BinaryExpression" /\ e.op = "-" -> valueOf(e.left) - valueOf(e.right)
    [] e.kind = "BinaryExpression" /\ e.op \in {"*", "·"} -> valueOf(e.left) * valueOf(e.right)

C12_Arithmetic ==
  phase = "simplified" =>
    /\ simplified.kind = "NumberLiteral"
    /\ simplified.value = valueOf(result.expr)

\* (1 - 2) · (2 + 1) was reduced to -3
C12_Witness ==
  /\ phase = "simplified"
  /\ result.expr.kind = "BinaryExpression"
  /\ result.expr.op = "·"
  /\ result.expr.left.kind = "BinaryExpression"
  /\ result.expr.left.op = "-"
  /\ result.expr.right.kind = "BinaryExpression"
  /\ result.expr.right.op = "+"
  /\ simplified.kind = "NumberLiteral"
  /\ simplified.value = -3

(***************************************************************************)
(* The binary node simplify is applied to in SpecSimplify (inside the      *)
(* Group wrapper or bare), and its operands as simplifyBinary sees them.   *)
(***************************************************************************)
\* the binary expression whose reduction is the value of simplified
TopBinary ==
  IF result.expr.kind = "Group" THEN result.expr.expr ELSE result.expr

Reduced == phase = "simplified" /\ TopBinary.kind = "BinaryExpression"

Left == simplify(TopBinary.left)
Right == simplify(TopBinary.right)

\* { ...bin, left, right }
Unreduced ==
  /\ simplified.kind = "BinaryExpression"
  /\ simplified.op = TopBinary.op
  /\ simplified.left = Left
  /\ simplified.right = Right

(***************************************************************************)
(* C13: "+" or "-" between two simplified vectors: with equal lengths the  *)
(* result is a vector of that length whose i-th element is                 *)
(* simplify(left[i] op right[i]); with different lengths it is the binary  *)
(* expression with the same op over the two simplified vectors.            *)
(***************************************************************************)
C13_VectorSum ==
  (Reduced /\ TopBinary.op \in {"+", "-"} /\ isVector(Left) /\ isVector(Right)) =>
    IF Len(Left.elements) = Len(Right.elements)
    THEN /\ simplified.kind = "VectorLiteral"
         /\ Len(simplified.elements) = Len(Left.elements)
         /\ \A k \in 1..Len(Left.elements) :
              simplified.elements[k] =
                simplify([kind |-> "BinaryExpression", op |-> TopBinary.op,
                          left |-> Left.elements[k], right |-> Right.elements[k],
                          span |-> Span(Left.elements[k].span.start,
                                        Right.elements[k].span.end)])
    ELSE Unreduced

\* <2, x> - <x, 2>: the elements stay the differences 2 - x and x - 2
C13_Witness ==
  /\ Reduced
  /\ TopBinary.op = "-"
  /\ isVector(Left) /\ isVector(Right)
  /\ Len(Left.elements) = 2 /\ Len(Right.elements) = 2
  /\ Left.elements[1].kind = "NumberLiteral" /\ Right.elements[1].kind = "Identifier"
  /\ Left.elements[2].kind = "Identifier" /\ Right.elements[2].kind = "NumberLiteral"
  /\ simplified.kind = "VectorLiteral"
  /\ simplified.elements[1].kind = "BinaryExpression"
  /\ simplified.elements[1].left.kind = "NumberLiteral"

(***************************************************************************)
(* C14: "*" with a rectangular matrix A on the left.  With a vector v on   *)
(* the right it reduces exactly when cols(A) = length(v), to a vector of   *)
(* length rows(A); with a matrix B on the right exactly when B is          *)
(* rectangular and cols(A) = rows(B), to a rows(A) x cols(B) matrix.  Each *)
(* entry is the simplified left-nested sum of the products of the row with *)
(* the column, one number when all of them are numbers.  Otherwise         *)
(* (dimension mismatch, ragged rows) the result is the "*" node over the   *)
(* simplified operands.                                                    *)
(***************************************************************************)
Rectangular(m) == \A r \in 1..Len(m.rows) : Len(m.rows[r]) = Len(m.rows[1])
RowCount(m) == Len(m.rows)
ColCount(m) == IF m.rows = <<>> THEN 0 ELSE Len(m.rows[1])

product(a, b) ==
  [kind |-> "BinaryExpression", op |-> "*", left |-> a, right |-> b,
   span |-> Span(a.span.start, b.span.end)]

\* ((t1 + t2) + t3) + ... over the first n terms
RECURSIVE leftNestedSum(_, _)
leftNestedSum(terms, n) ==
  IF n = 1 THEN terms[1]
  ELSE LET l == leftNestedSum(terms, n - 1)
       IN  [kind |-> "BinaryExpression", op |-> "+", left |-> l, right |-> terms[n],
            span |-> Span(l.span.start, terms[n].span.end)]

RECURSIVE sumOfProducts(_, _, _)
sumOfProducts(row, col, n) ==
  IF n = 0 THEN 0 ELSE sumOfProducts(row, col, n - 1) + row[n].value * col[n].value

\* what the entry for a row and a column of equal length must be
IsInnerProduct(entry, row, col) ==
  /\ Len(row) > 0 =>
       entry = simplify(leftNestedSum([k \in 1..Len(row) |-> product(row[k], col[k])], Len(row)))
  /\ (\A k \in 1..Len(row) : isNumber(row[k]) /\ isNumber(col[k])) =>
       /\ entry.kind = "NumberLiteral"
       /\ entry.value = sumOfProducts(row, col, Len(row))

Column(m, c) == [k \in 1..RowCount(m) |-> m.rows[k][c]]

C14_MatrixProduct ==
  (Reduced /\ TopBinary.op = "*" /\ isMatrix(Left) /\ (isVector(Right) \/ isMatrix(Right))) =>
    IF isVector(Right)
    THEN IF Rectangular(Left) /\ ColCount(Left) = Len(Right.elements)
         THEN /\ simplified.kind = "VectorLiteral"
              /\ Len(simplified.elements) = RowCount(Left)
              /\ \A r \in 1..RowCount(Left) :
                   IsInnerProduct(simplified.elements[r], Left.rows[r], Right.elements)
         ELSE Unreduced
    ELSE IF Rectangular(Left) /\ Rectangular(Right) /\ ColCount(Left) = RowCount(Right)
         THEN /\ simplified.kind = "MatrixLiteral"
              /\ Len(simplified.rows) = RowCount(Left)
              /\ \A r \in 1..RowCount(Left) :
                   /\ Len(simplified.rows[r]) = ColCount(Right)
                   /\ \A c \in 1..ColCount(Right) :
                        IsInnerProduct(simplified.rows[r][c], Left.rows[r], Column(Right, c))
         ELSE Unreduced

\* a 2 x 2 matrix of numbers times a 2 x 2 matrix of numbers: every entry is 8
C14_Witness ==
  /\ Reduced
  /\ TopBinary.op = "*"
  /\ isMatrix(Left) /\ isMatrix(Right)
  /\ RowCount(Left) = MaxRows /\ Rectangular(Left) /\ ColCount(Left) = 2
  /\ RowCount(Right) = 2 /\ Rectangular(Right) /\ ColCount(Right) = MaxCols
  /\ simplified.kind = "MatrixLiteral"
  /\ \A r \in 1..MaxRows : \A c \in 1..MaxCols :
       simplified.rows[r][c].kind = "NumberLiteral" /\ simplified.rows[r][c].value = 8

(***************************************************************************)
(* C15: a number and a matrix as the simplified operands, in either order, *)
(* with "*", "+" or "-": the result is a matrix of the same shape whose    *)
(* every cell is the simplified combination of the number with the         *)
(* corresponding cell.                                                     *)
(***************************************************************************)
ScalarWithMatrix ==
  \/ isNumber(Left) /\ isMatrix(Right)
  \/ isMatrix(Left) /\ isNumber(Right)

TheScalar == IF isNumber(Left) THEN Left ELSE Right
TheMatrix == IF isNumber(Left) THEN Right ELSE Left

\* the combinations of the scalar k with a cell, in either order
Combinations(op, k, cell) ==
  {simplify([kind |-> "BinaryExpression", op |-> op, left |-> num(k.value, sp),
             right |-> cell, span |-> Span(sp.start, cell.span.end)]) :
     sp \in {k.span, cell.span}}
  \cup
  {simplify([kind |-> "BinaryExpression", op |-> op, left |-> cell,
             right |-> num(k.value, sp), span |-> Span(cell.span.start, sp.end)]) :
     sp \in {k.span, cell.span}}

Distributed(op) ==
  /\ simplified.kind = "MatrixLiteral"
  /\ Len(simplified.rows) = Len(TheMatrix.rows)
  /\ \A r \in 1..Len(TheMatrix.rows) :
       /\ Len(simplified.rows[r]) = Len(TheMatrix.rows[r])
       /\ \A c \in 1..Len(TheMatrix.rows[r]) :
            simplified.rows[r][c] \in Combinations(op, TheScalar, TheMatrix.rows[r][c])

C15_ScalarMatrix ==
  (Reduced /\ TopBinary.op \in {"*", "+", "-"} /\ ScalarWithMatrix) => Distributed(TopBinary.op)

\* the part of C15 the simplifier implements: the scalar multiple of a matrix
C15_ScalarTimesMatrix ==
  (Reduced /\ TopBinary.op = "*" /\ ScalarWithMatrix) => Distributed("*")

(***************************************************************************)
(* The simplifier on products of two vectors: vectors up to MaxVec over    *)
(* the numbers 0..MaxNum and an identifier, under the cross and the dot.   *)
(***************************************************************************)
VectorProducts == {"×", "·"}

Components == Numbers \cup {[kind |-> "Identifier", name |-> <<"x">>, span |-> Span(3, 4)]}

InitCross ==
  /\ phase = "expr"
  /\ text = <<>>
  /\ tokens = <<>>
  /\ \E op \in VectorProducts, a \in Seqs(Components, MaxVec), b \in Seqs(Components, MaxVec) :
       result = [expr |-> binary(op, vector(a), vector(b)), errors |-> <<>>,
                 outcome |-> "ok", i |-> 0]
  /\ simplified = Undefined
  /\ cursor = 0

SpecCross == InitCross /\ [][NextSimplify]_vars

(***************************************************************************)
(* C16: the cross between two simplified vectors a and b: when both have   *)
(* length 3 the result is the vector                                       *)
(* [simplify(a2*b3 - a3*b2), simplify(a3*b1 - a1*b3),                      *)
(* simplify(a1*b2 - a2*b1)], so <1,0,0> x <0,1,0> is <0,0,1>; for any      *)
(* other lengths it is the cross node over the simplified operands.        *)
(***************************************************************************)
difference(a, b) ==
  [kind |-> "BinaryExpression", op |-> "-", left |-> a, right |-> b,
   span |-> Span(a.span.start, b.span.end)]

valuesOf(els) == [k \in 1..Len(els) |-> els[k].value]

C16_CrossProduct ==
  (Reduced /\ TopBinary.op = "×" /\ isVector(Left) /\ isVector(Right)) =>
    LET a == Left.elements
        b == Right.elements
    IN  IF Len(a) = 3 /\ Len(b) = 3
        THEN /\ simplified.kind = "VectorLiteral"
             /\ simplified.elements =
                  <<simplify(difference(product(a[2], b[3]), product(a[3], b[2]))),
                    simplify(difference(product(a[3], b[1]), product(a[1], b[3]))),
                    simplify(difference(product(a[1], b[2]), product(a[2], b[1])))>>
             /\ (\A k \in 1..3 : isNumber(a[k]) /\ isNumber(b[k])) =>
                  /\ \A k \in 1..3 : isNumber(simplified.elements[k])
                  /\ valuesOf(simplified.elements) =
                       <<a[2].value * b[3].value - a[3].value * b[2].value,
                         a[3].value * b[1].value - a[1].value * b[3].value,
                         a[1].value * b[2].value - a[2].value * b[1].value>>
        ELSE Unreduced

\* <1, 0, 0> x <0, 1, 0> was reduced to <0, 0, 1>
C16_Witness ==
  /\ Reduced
  /\ TopBinary.op = "×"
  /\ isVector(Left) /\ isVector(Right)
  /\ Len(Left.elements) = 3 /\ Len(Right.elements) = 3
  /\ \A k \in 1..3 : isNumber(Left.elements[k]) /\ isNumber(Right.elements[k])
  /\ valuesOf(Left.elements) = <<1, 0, 0>>
  /\ valuesOf(Right.elements) = <<0, 1, 0>>
  /\ simplified.kind = "VectorLiteral"
  /\ valuesOf(simplified.elements) = <<0, 0, 1>>

(***************************************************************************)
(* C17: the Placeholder rule comes first in simplifyBinary: for every      *)
(* operator, when either simplified child is a Placeholder the result is   *)
(* the binary expression with the original op and span over the two        *)
(* simplified children, and no arithmetic, vector or matrix rule applies.  *)
(***************************************************************************)
C17_PlaceholderKeepsStructure ==
  (Reduced /\ (isPlaceholder(Left) \/ isPlaceholder(Right))) =>
    /\ Unreduced
    /\ simplified.span = TopBinary.span
    /\ DOMAIN simplified = DOMAIN TopBinary

\* (placeholder) * <2, 2>: kept as a product, its span still the original one
C17_Witness ==
  /\ Reduced
  /\ TopBinary.op = "*"
  /\ TopBinary.left.kind = "Group"
  /\ isPlaceholder(Left)
  /\ isVector(Right)
  /\ Len(Right.elements) = 2
  /\ simplified.kind = "BinaryExpression"
  /\ simplified.span.start < simplified.left.span.start

(***************************************************************************)
(* C18: simplify eliminates grouping: simplify(Group{expr}) equals         *)
(* simplify(expr), and the tree simplify returns holds no Group node at    *)
(* any depth (binary operands, vector elements, matrix cells).             *)
(***************************************************************************)
\* no node of e is a Group
RECURSIVE GroupFree(_)
GroupFree(e) ==
  CASE e.kind = "Group" -> FALSE
    [] e.kind = "BinaryExpression" -> GroupFree(e.left) /\ GroupFree(e.right)
    [] e.kind = "VectorLiteral" -> \A k \in 1..Len(e.elements) : GroupFree(e.elements[k])
    [] e.kind = "MatrixLiteral" ->
         \A r \in 1..Len(e.rows) : \A c \in 1..Len(e.rows[r]) : GroupFree(e.rows[r][c])
    [] OTHER -> TRUE

\* at every Group of e, simplify gives what it gives for the expression inside
RECURSIVE GroupsVanish(_)
GroupsVanish(e) ==
  CASE e.kind = "Group" -> simplify(e) = simplify(e.expr) /\ GroupsVanish(e.expr)
    [] e.kind = "BinaryExpression" -> GroupsVanish(e.left) /\ GroupsVanish(e.right)
    [] e.kind = "VectorLiteral" -> \A k \in 1..Len(e.elements) : GroupsVanish(e.elements[k])
    [] e.kind = "MatrixLiteral" ->
         \A r \in 1..Len(e.rows) : \A c \in 1..Len(e.rows[r]) : GroupsVanish(e.rows[r][c])
    [] OTHER -> TRUE

C18_NoGroups ==
  phase = "simplified" => GroupsVanish(result.expr) /\ GroupFree(simplified)

\* a matrix cell ((2 * (x)) in two Groups) became the bare product
C18_Witness ==
  /\ phase = "simplified"
  /\ result.expr.kind = "MatrixLiteral"
  /\ result.expr.rows[1][1].kind = "Group"
  /\ result.expr.rows[1][1].expr.kind = "Group"
  /\ result.expr.rows[1][1].expr.expr.kind = "BinaryExpression"
  /\ result.expr.rows[1][1].expr.expr.right.kind = "Group"
  /\ simplified.kind = "MatrixLiteral"
  /\ simplified.rows[1][1].kind = "BinaryExpression"
  /\ simplified.rows[1][1].right.kind = "Identifier"

C19_StopsInsideTokens ==
  (Parsed /\ result.outcome = "ok") => result.i + 1 \in 1..Len(tokens)

(***************************************************************************)
(* C20: a closing delimiter is never consumed as the recovered operand of  *)
(* an inner construct: where a Group's content starts at a ">", "]" or ")" *)
(* the token stays available, so the Group holds the recovery Placeholder  *)
(* alone and ends at the ")" that closes it, or before the ">" or "]"      *)
(* that closes the enclosing literal ("<(>" is a closed vector, and in     *)
(* "()+1" the Group does not contain "+1").                                *)
(***************************************************************************)
RECURSIVE firstPrimary(_)
\* the first primary parsed for an expression: its leftmost leaf
firstPrimary(e) ==
  IF e.kind = "BinaryExpression" THEN firstPrimary(e.left) ELSE e

ClosingDelimiters == {"RAngle", "RBracket", "RParen"}

\* the closing delimiters of the token list at which a Placeholder starts
ClosersAt(p) ==
  {k \in 1..Len(tokens) :
     /\ tokens[k].type \in ClosingDelimiters
     /\ tokens[k].start = p.span.start}

\* the Group g met closing delimiter k where its content was expected
MetCloser(g, k) ==
  /\ firstPrimary(g.expr).kind = "Placeholder"
  /\ firstPrimary(g.expr).expected = "expression"
  /\ k \in ClosersAt(firstPrimary(g.expr))

C20_CloserIsConsumed ==
  (Parsed /\ result.outcome = "ok") =>
    \A g \in NodesOfKind("Group") : \A k \in 1..Len(tokens) :
      MetCloser(g, k) =>
        /\ firstPrimary(g.expr).span = Span(tokens[k].start, tokens[k].end)
        /\ g.span.end >= tokens[k].end
        /\ result.i >= k

(***************************************************************************)
(* The editor: the text and the caret under key events, mouse clicks and   *)
(* focus.  A key is the string of KeyboardEvent.key; the position a click  *)
(* picks comes from the renderer's caret targets and is any integer, or    *)
(* none.  The state setters of one handler take effect together.           *)
(***************************************************************************)
MaxEditLen == 4    \* longest text of SpecEditor

Min(a, b) == IF a < b THEN a ELSE b
Max(a, b) == IF a > b THEN a ELSE b

\* String.prototype.slice(a, b): a negative index counts from the end, and
\* both are clamped to 0..length
sliceIndex(s, a) == IF a < 0 THEN Max(Len(s) + a, 0) ELSE Min(a, Len(s))
textSlice(s, a, b) == SubSeq(s, sliceIndex(s, a) + 1, sliceIndex(s, b))
textSliceFrom(s, a) == textSlice(s, a, Len(s))

\* s.replace(/\s+/g, "")
clean(s) == SelectSeq(s, LAMBDA c : c \notin Whitespace)

\* a plausible slip: afterClean taken for beforeClean in the caret
applyChangeAfterClean(rawText, rawCursor) ==
  LET before == textSlice(rawText, 0, rawCursor)
      after == textSliceFrom(rawText, rawCursor)
      beforeClean == clean(before)
      afterClean == clean(after)
      cleanText == beforeClean \o afterClean
  IN  [text |-> cleanText,
       cursor |-> Max(0, Min(Len(cleanText), Len(afterClean)))]

\* setText(clean); setCursor(Math.max(0, Math.min(clean.length, beforeClean.length)))
applyChange(rawText, rawCursor) ==
  LET before == textSlice(rawText, 0, rawCursor)
      after == textSliceFrom(rawText, rawCursor)
      beforeClean == clean(before)
      afterClean == clean(after)
      cleanText == beforeClean \o afterClean
  IN  [text |-> cleanText,
       cursor |-> Max(0, Min(Len(cleanText), Len(beforeClean)))]

\* text[cursor], undefined outside the text
textAt(t, c) == IF c >= 0 /\ c < Len(t) THEN t[c + 1] ELSE "undefined"

\* const newText = text.slice(0, cursor) + insert + text.slice(cursor)
inserted(t, c, insert) == textSlice(t, 0, c) \o insert \o textSliceFrom(t, c)

NamedKeys == {"Backspace", "Delete", "ArrowLeft", "ArrowRight", "Home", "End", "Shift"}
CharKeys == {"x", " ", "<", "[", ">", "]"}
Keys == NamedKeys \cup CharKeys

\* k.length
keyLength(k) == Len(k)

\* the text and the caret handleKeyDown leaves, from those it was called with
handleKeyDown(t, c, k, modifier, isComposing) ==
  LET same == [text |-> t, cursor |-> c]
  IN  IF modifier THEN same
      ELSE IF k = "<" THEN applyChange(inserted(t, c, <<"<", ">">>), c + 1)
      ELSE IF k = "[" THEN applyChange(inserted(t, c, <<"[", "]">>), c + 1)
      ELSE IF k \in {">", "]"} /\ textAt(t, c) = k THEN [text |-> t, cursor |-> c + 1]
      ELSE IF k = "Backspace"
        THEN IF c > 0 THEN applyChange(textSlice(t, 0, c - 1) \o textSliceFrom(t, c), c - 1) ELSE same
      ELSE IF k = "Delete"
        THEN IF c < Len(t) THEN applyChange(textSlice(t, 0, c) \o textSliceFrom(t, c + 1), c) ELSE same
      ELSE IF k = "ArrowLeft" THEN [text |-> t, cursor |-> Max(0, c - 1)]
      ELSE IF k = "ArrowRight" THEN [text |-> t, cursor |-> Min(Len(t), c + 1)]
      ELSE IF k = "Home" THEN [text |-> t, cursor |-> 0]
      ELSE IF k = "End" THEN [text |-> t, cursor |-> Len(t)]
      ELSE IF keyLength(k) = 1 /\ ~isComposing
        THEN IF k \in Whitespace THEN same
             ELSE applyChange(inserted(t, c, <<k>>), c + keyLength(k))
      ELSE same

KeyDown(k, modifier, isComposing) ==
  /\ phase = "text"
  /\ Len(handleKeyDown(text, cursor, k, modifier, isComposing).text) <= MaxEditLen
  /\ text' = handleKeyDown(text, cursor, k, modifier, isComposing).text
  /\ cursor' = handleKeyDown(text, cursor, k, modifier, isComposing).cursor
  /\ UNCHANGED <<phase, tokens, result, simplified>>

\* the positions pickCaretFromClick may return
ClickPositions == (0 - 2)..(MaxEditLen + 2)

\* if (pos !== null) setCursor(Math.max(0, Math.min(text.length, pos)))
MouseDown(hit, pos) ==
  /\ phase = "text"
  /\ cursor' = IF hit THEN Max(0, Min(Len(text), pos)) ELSE cursor
  /\ UNCHANGED <<phase, text, tokens, result, simplified>>

\* onFocus: setCursor((c) => Math.max(0, Math.min(text.length, c)))
Focus ==
  /\ phase = "text"
  /\ cursor' = Max(0, Min(Len(text), cursor))
  /\ UNCHANGED <<phase, text, tokens, result, simplified>>

NextEditor ==
  \/ \E k \in Keys, modifier \in BOOLEAN, isComposing \in BOOLEAN :
       KeyDown(k, modifier, isComposing)
  \/ \E hit \in BOOLEAN, pos \in ClickPositions : MouseDown(hit, pos)
  \/ Focus

SpecEditor == Init /\ [][NextEditor]_vars

(***************************************************************************)
(* C21: from the empty text with the caret at 0, after any sequence of key *)
(* events, mouse clicks and focus events the caret is within               *)
(* 0..length(text) and the text holds no whitespace character; typing "<"  *)
(* or "[" inserts the matching pair with the caret between its two         *)
(* characters, and typing ">" or "]" when that character is at the caret   *)
(* only moves the caret one to the right, the text unchanged.              *)
(***************************************************************************)
Closing(k) == IF k = "<" THEN ">" ELSE "]"

CaretInText == cursor \in 0..Len(text)

NoWhitespace == \A n \in 1..Len(text) : text[n] \notin Whitespace

\* text' is text with the pair of k put in at the caret, the caret between
PairInserted(k) ==
  /\ Len(text') = Len(text) + 2
  /\ \A n \in 1..cursor : text'[n] = text[n]
  /\ text'[cursor + 1] = k
  /\ text'[cursor + 2] = Closing(k)
  /\ \A n \in (cursor + 1)..Len(text) : text'[n + 2] = text[n]
  /\ cursor' = cursor + 1

SteppedOver == text' = text /\ cursor' = cursor + 1

TypingBrackets ==
  \A isComposing \in BOOLEAN :
    /\ \A k \in {"<", "["} : KeyDown(k, FALSE, isComposing) => PairInserted(k)
    /\ \A k \in {">", "]"} :
         (KeyDown(k, FALSE, isComposing) /\ cursor < Len(text) /\ text[cursor + 1] = k)
           => SteppedOver

C21_EditorInvariant ==
  /\ [](CaretInText /\ NoWhitespace)
  /\ [][TypingBrackets]_vars

\* "[<" was typed, both pairs were closed, and the caret stepped over the ">"
C21_Witness ==
  /\ text = <<"[", "<", ">", "]">>
  /\ cursor = 3

====
